---- MODULE Spec2Model ----
(***************************************************************************)
(* Model of CNN_10k_pyotorch_single_GPU_oneCLR_ETH_Zurich_Seg.py:          *)
(*   - CustomImageFolder (the sample catalog),                            *)
(*   - get_data_loaders  (class-balanced sampling, shuffle, 80/20 split),  *)
(*   - train_model / main (epoch loop, best checkpoint, final artifact).   *)
(* Catalog indices are 0-based as in the code; samples[i + 1] is the       *)
(* class index of catalog entry i.                                         *)
(***************************************************************************)
EXTENDS Integers, Sequences, FiniteSets, Bags, TLC

\* ------------------------------------------------------------------ bounds
MaxClasses == 2      \* class directories under the data root
MaxCount == 2        \* image files in one class directory
MaxK == 3            \* num_img_per_class
MaxPool == 6         \* largest balanced pool explored (classes * num_img_per_class)
MaxBatch == 2        \* batch_size
MaxEpochs == 2       \* num_epochs

VARIABLES
    pc,             \* position of the run
    classes,        \* len(dataset.classes)
    samples,        \* dataset.samples, as the sequence of class indices
    num_img,        \* num_img_per_class
    class_idx,      \* loop variable of the sampling loop
    indices,        \* the balanced pool (shuffled in place)
    train_indices,
    val_indices,
    \* --- main / train_model
    tpc,            \* position of main / train_model
    dataset_len,    \* len(train_loader.dataset) = len(val_loader.dataset) = len(dataset)
    train_n,        \* len(train_sampler)
    val_n,          \* len(val_sampler)
    bsz,            \* batch_size
    n_epochs,       \* num_epochs
    total_steps,    \* total_steps of the OneCycleLR built in main
    epoch,
    batch_idx,      \* training batches (then validation batches) consumed in this epoch
    model_wts,      \* model.state_dict(), as the number of optimizer updates it results from
    opt_steps,      \* optimizer.step() calls
    sched_steps,    \* scheduler.step() calls made by train_model
    running_loss,
    running_corrects,
    epoch_loss,
    epoch_acc,
    val_loss,
    val_corrects,
    val_acc,
    val_log,        \* writer's 'Validation Loss' series, one value per epoch
    best_loss,
    best_model_wts,
    ckpts,          \* best_model_<epoch>_<loss>.pth files, in save order
    final_model     \* writes of Final_model.pth

svars == <<pc, classes, samples, num_img, class_idx, indices, train_indices, val_indices>>

tvars == <<tpc, dataset_len, train_n, val_n, bsz, n_epochs, total_steps, epoch,
           batch_idx, model_wts, opt_steps, sched_steps,
           running_loss, running_corrects, epoch_loss, epoch_acc, val_loss,
           val_corrects, val_acc, val_log, best_loss, best_model_wts, ckpts,
           final_model>>

vars == <<svars, tvars>>

\* ----------------------------------------------------------------- helpers
Range(s) == {s[i] : i \in 1..Len(s)}

BagOfSeq(s) == [x \in Range(s) |-> Cardinality({i \in 1..Len(s) : s[i] = x})]

RECURSIVE Repeat(_, _)
Repeat(x, n) == IF n = 0 THEN <<>> ELSE <<x>> \o Repeat(x, n - 1)

RECURSIVE PermsOf(_)
PermsOf(S) ==
    IF S = {} THEN {<<>>}
    ELSE UNION {{<<x>> \o p : p \in PermsOf(S \ {x})} : x \in S}

\* ------------------------------------------------------- CustomImageFolder
\* A data root: one entry per class directory, in sorted name order, giving
\* the number of files with an allowed image extension and of other files.
DirTrees ==
    UNION {[1..n -> [img : 0..MaxCount, other : 0..1]] : n \in 0..MaxClasses}

\* _find_classes: the number of class directories (index = sorted position).
FindClasses(tree) == Len(tree)

\* _make_dataset: classes in sorted order, each contributing its image files;
\* files failing _is_image_file are skipped.
RECURSIVE MakeDataset(_, _)
MakeDataset(tree, c) ==
    IF c > Len(tree) THEN <<>>
    ELSE Repeat(c - 1, tree[c].img) \o MakeDataset(tree, c + 1)

\* ------------------------------------------------------- get_data_loaders
\* np.where(labels == class_idx)[0]
ClassIndices(smp, c) == {i \in 0..(Len(smp) - 1) : smp[i + 1] = c}

\* faulty variant: no oversampling, a small class contributes only what it has.
ChoiceReplaceShort(S, k) ==
    [1..(IF Cardinality(S) < k THEN Cardinality(S) ELSE k) -> S]

\* np.random.choice(a, k, replace=True): every length-k sequence over a.
ChoiceReplace(S, k) == [1..k -> S]

\* np.random.choice(a, k, replace=False): every length-k sequence of
\* pairwise distinct members of a.
ChoiceNoReplace(S, k) ==
    {s \in [1..k -> S] : \A i, j \in 1..k : i # j => s[i] # s[j]}

\* faulty variant: replace=True whatever the class size.
SampleClassAlwaysReplace(S, k) == ChoiceReplace(S, k)

\* lines 106-109: with replacement only for a class smaller than the quota.
SampleClass(S, k) ==
    IF Cardinality(S) < k THEN ChoiceReplace(S, k) ELSE ChoiceNoReplace(S, k)

\* np.random.shuffle: every rearrangement of the list.
Shuffles(s) == {[i \in 1..Len(s) |-> s[p[i]]] : p \in PermsOf(1..Len(s))}

\* faulty variant: round(0.8 * n) instead of int(0.8 * n).
SplitPointRounded(n) == (8 * n + 5) \div 10

\* int(0.8 * n); for the pool sizes of the model the double product
\* truncates to the same integer as the exact 8n/10.
SplitPoint(n) == (8 * n) \div 10

\* ------------------------------------------------------------ float values
\* A Python float is modelled as a fraction num/den of naturals; den = 0 is
\* float('inf').  NaN is not modelled: the losses are ordered values.
F(n) == [num |-> n, den |-> 1]

FInf == [num |-> 1, den |-> 0]

\* a + b, for a running sum (den is 0 or 1)
FAdd(a, b) == IF a.den = 0 \/ b.den = 0 THEN FInf ELSE F(a.num + b.num)

\* a * k for an integer k > 0
FMul(a, k) == IF a.den = 0 THEN FInf ELSE F(a.num * k)

\* a / n for an integer n > 0
FDiv(a, n) == IF a.den = 0 THEN FInf ELSE [num |-> a.num, den |-> a.den * n]

\* a < b
FLess(a, b) == a.num * b.den < b.num * a.den

\* a == b
FEq(a, b) == ~FLess(a, b) /\ ~FLess(b, a)

\* ------------------------------------------------------------- DataLoader
\* len(DataLoader(dataset, batch_size=b, sampler=s)) with drop_last=False.
NumBatches(n, b) == (n + b - 1) \div b

\* inputs.size(0) of batch i (0-based) of a loader over n sampled indices.
BatchLen(n, b, i) == IF (i + 1) * b <= n THEN b ELSE n - i * b

\* ------------------------------------------------------------ train_model
\* line 239: OneCycleLR(steps_per_epoch=len(train_loader), epochs=num_epochs)
TotalSteps(nb, ne) == nb * ne

\* faulty variant: the schedule is stepped once per epoch, after its last batch.
SchedulerStepPerEpoch(steps, b, nb) == IF b = nb - 1 THEN steps + 1 ELSE steps

\* line 158: scheduler.step() after the optimizer step of every batch.
SchedulerStep(steps, b, nb) == steps + 1

\* faulty variant: val_loss <= best_loss
ImprovedOrEqual(v, best) == ~FLess(best, v)

\* line 211: if val_loss < best_loss
Improved(v, best) == FLess(v, best)

\* lines 132, 213: copy.deepcopy(model.state_dict())
Snapshot(w) == w

\* faulty variant: the best weights are never loaded back.
KeepCurrent(cur, best) == cur

\* line 220: model.load_state_dict(best_model_wts)
LoadStateDict(cur, best) == best

\* lines 176-177, 202-203: the divisor of the epoch metrics.
MetricDivisor(loader_dataset_len, sampler_len) == loader_dataset_len

\* what loss.item() may be for a training batch, for a validation batch; the
\* training loss only feeds the epoch's logged mean, the validation loss
\* decides the checkpoints
TrainLosses == {F(1)}

ValLosses == {F(0), F(1), FInf}

SamplerIdle ==
    /\ pc = "idle"
    /\ classes = 0
    /\ samples = <<>>
    /\ num_img = 0
    /\ class_idx = 0
    /\ indices = <<>>
    /\ train_indices = <<>>
    /\ val_indices = <<>>

TrainIdle ==
    /\ tpc = "idle"
    /\ dataset_len = 0 /\ train_n = 0 /\ val_n = 0 /\ bsz = 0 /\ n_epochs = 0
    /\ total_steps = 0 /\ epoch = 0 /\ batch_idx = 0
    /\ model_wts = 0 /\ opt_steps = 0 /\ sched_steps = 0
    /\ running_loss = F(0) /\ running_corrects = 0
    /\ epoch_loss = F(0) /\ epoch_acc = F(0)
    /\ val_loss = F(0) /\ val_corrects = 0 /\ val_acc = F(0)
    /\ val_log = <<>>
    /\ best_loss = FInf /\ best_model_wts = 0
    /\ ckpts = <<>> /\ final_model = <<>>

\* ================================================= Spec: get_data_loaders
Init ==
    /\ pc = "start"
    /\ classes = 0
    /\ samples = <<>>
    /\ num_img \in 1..MaxK
    /\ class_idx = 0
    /\ indices = <<>>
    /\ train_indices = <<>>
    /\ val_indices = <<>>
    /\ TrainIdle

\* line 94: dataset = CustomImageFolder(root=data_dir); lines 96-103.
BuildCatalog ==
    /\ pc = "start"
    /\ \E tree \in DirTrees :
          /\ Len(tree) * num_img <= MaxPool
          /\ classes' = FindClasses(tree)
          /\ samples' = MakeDataset(tree, 1)
    /\ class_idx' = 0
    /\ indices' = <<>>
    /\ pc' = "sample"
    /\ UNCHANGED <<num_img, train_indices, val_indices, tvars>>

\* one iteration of the loop of lines 104-110 that completes.
SampleOneClass ==
    /\ pc = "sample"
    /\ class_idx < classes
    /\ ClassIndices(samples, class_idx) # {}
    /\ \E drawn \in SampleClass(ClassIndices(samples, class_idx), num_img) :
          indices' = indices \o drawn
    /\ class_idx' = class_idx + 1
    /\ UNCHANGED <<pc, classes, samples, num_img, train_indices, val_indices, tvars>>

\* lines 106-107 on a class without samples: np.random.choice raises
\* ValueError for an empty population and a positive size.
SampleEmptyClass ==
    /\ pc = "sample"
    /\ class_idx < classes
    /\ ClassIndices(samples, class_idx) = {}
    /\ pc' = "error"
    /\ UNCHANGED <<classes, samples, num_img, class_idx, indices,
                   train_indices, val_indices, tvars>>

\* lines 113-115 (and the return of line 129).
ShuffleSplit ==
    /\ pc = "sample"
    /\ class_idx = classes
    /\ \E sh \in Shuffles(indices) :
          /\ indices' = sh
          /\ train_indices' = SubSeq(sh, 1, SplitPoint(Len(sh)))
          /\ val_indices' = SubSeq(sh, SplitPoint(Len(sh)) + 1, Len(sh))
    /\ pc' = "done"
    /\ UNCHANGED <<classes, samples, num_img, class_idx, tvars>>

Next == BuildCatalog \/ SampleOneClass \/ SampleEmptyClass \/ ShuffleSplit

Spec == Init /\ [][Next]_vars

\* ================================================ TrainSpec: main, train_model
\* The loaders main gets from get_data_loaders for a data root whose classes
\* all have images: the dataset length and the two sampler lengths.
TrainInit ==
    /\ SamplerIdle
    /\ \E tree \in DirTrees, k \in 1..MaxK :
          /\ Len(tree) * k <= MaxPool
          /\ \A c \in 1..Len(tree) : tree[c].img >= 1
          /\ dataset_len = Len(MakeDataset(tree, 1))
          /\ train_n = SplitPoint(Len(tree) * k)
          /\ val_n = Len(tree) * k - SplitPoint(Len(tree) * k)
    /\ bsz \in 1..MaxBatch
    /\ n_epochs \in 1..MaxEpochs
    /\ tpc = "main"
    /\ total_steps = 0 /\ epoch = 0 /\ batch_idx = 0
    /\ model_wts = 0 /\ opt_steps = 0 /\ sched_steps = 0
    /\ running_loss = F(0) /\ running_corrects = 0
    /\ epoch_loss = F(0) /\ epoch_acc = F(0)
    /\ val_loss = F(0) /\ val_corrects = 0 /\ val_acc = F(0)
    /\ val_log = <<>>
    /\ best_loss = FInf /\ best_model_wts = 0
    /\ ckpts = <<>> /\ final_model = <<>>

cfgvars == <<dataset_len, train_n, val_n, bsz, n_epochs>>

\* lines 231-241 and 132-133: the scheduler is built, train_model is entered.
\* OneCycleLR raises ValueError when its total step count is not positive.
MainSetup ==
    /\ tpc = "main"
    /\ TotalSteps(NumBatches(train_n, bsz), n_epochs) > 0
    /\ total_steps' = TotalSteps(NumBatches(train_n, bsz), n_epochs)
    /\ best_model_wts' = Snapshot(model_wts)
    /\ best_loss' = FInf
    /\ tpc' = "epoch"
    /\ UNCHANGED <<svars, cfgvars, epoch, batch_idx, model_wts, opt_steps,
                   sched_steps, running_loss, running_corrects,
                   epoch_loss, epoch_acc, val_loss, val_corrects, val_acc,
                   val_log, ckpts, final_model>>

MainSetupFails ==
    /\ tpc = "main"
    /\ TotalSteps(NumBatches(train_n, bsz), n_epochs) <= 0
    /\ tpc' = "error"
    /\ UNCHANGED <<svars, cfgvars, total_steps, epoch, batch_idx, model_wts,
                   opt_steps, sched_steps, running_loss,
                   running_corrects, epoch_loss, epoch_acc, val_loss,
                   val_corrects, val_acc, val_log, best_loss, best_model_wts,
                   ckpts, final_model>>

\* lines 135-144: an epoch begins.
EpochStart ==
    /\ tpc = "epoch"
    /\ epoch < n_epochs
    /\ running_loss' = F(0)
    /\ running_corrects' = 0
    /\ batch_idx' = 0
    /\ tpc' = "forward"
    /\ UNCHANGED <<svars, cfgvars, total_steps, epoch, model_wts, opt_steps,
                   sched_steps, epoch_loss, epoch_acc, val_loss,
                   val_corrects, val_acc, val_log, best_loss, best_model_wts,
                   ckpts, final_model>>

\* lines 145-155: forward pass, loss, predictions, backward pass.
TrainForward ==
    /\ tpc = "forward"
    /\ batch_idx < NumBatches(train_n, bsz)
    /\ tpc' = "optstep"
    /\ UNCHANGED <<svars, cfgvars, total_steps, epoch, batch_idx, model_wts,
                   opt_steps, sched_steps, running_loss, running_corrects,
                   epoch_loss, epoch_acc, val_loss, val_corrects, val_acc,
                   val_log, best_loss, best_model_wts, ckpts, final_model>>

\* line 156: optimizer.step()
OptimizerStep ==
    /\ tpc = "optstep"
    /\ model_wts' = model_wts + 1
    /\ opt_steps' = opt_steps + 1
    /\ tpc' = "schedstep"
    /\ UNCHANGED <<svars, cfgvars, total_steps, epoch, batch_idx, sched_steps,
                   running_loss, running_corrects, epoch_loss,
                   epoch_acc, val_loss, val_corrects, val_acc, val_log,
                   best_loss, best_model_wts, ckpts, final_model>>

\* lines 158-174: scheduler.step(), then the running sums; l is loss.item()
\* and c is torch.sum(preds == labels.data).item() of the batch.
SchedStepAndAccumulate ==
    /\ tpc = "schedstep"
    /\ sched_steps' = SchedulerStep(sched_steps, batch_idx, NumBatches(train_n, bsz))
    /\ \E l \in TrainLosses, c \in 0..BatchLen(train_n, bsz, batch_idx) :
          /\ running_loss' = FAdd(running_loss, FMul(l, BatchLen(train_n, bsz, batch_idx)))
          /\ running_corrects' = running_corrects + c
    /\ batch_idx' = batch_idx + 1
    /\ tpc' = "forward"
    /\ UNCHANGED <<svars, cfgvars, total_steps, epoch, model_wts, opt_steps,
                   epoch_loss, epoch_acc, val_loss,
                   val_corrects, val_acc, val_log, best_loss, best_model_wts,
                   ckpts, final_model>>

\* lines 176-188: the epoch's training metrics; the validation phase begins.
EndTrainPhase ==
    /\ tpc = "forward"
    /\ batch_idx = NumBatches(train_n, bsz)
    /\ epoch_loss' = FDiv(running_loss, MetricDivisor(dataset_len, train_n))
    /\ epoch_acc' = FDiv(F(running_corrects), MetricDivisor(dataset_len, train_n))
    /\ val_loss' = F(0)
    /\ val_corrects' = 0
    /\ batch_idx' = 0
    /\ tpc' = "val"
    /\ UNCHANGED <<svars, cfgvars, total_steps, epoch, model_wts, opt_steps,
                   sched_steps, running_loss, running_corrects,
                   val_acc, val_log, best_loss, best_model_wts, ckpts,
                   final_model>>

\* lines 191-200: one validation batch, under torch.no_grad().
ValBatch ==
    /\ tpc = "val"
    /\ batch_idx < NumBatches(val_n, bsz)
    /\ \E l \in ValLosses, c \in 0..BatchLen(val_n, bsz, batch_idx) :
          /\ val_loss' = FAdd(val_loss, FMul(l, BatchLen(val_n, bsz, batch_idx)))
          /\ val_corrects' = val_corrects + c
    /\ batch_idx' = batch_idx + 1
    /\ UNCHANGED <<svars, cfgvars, tpc, total_steps, epoch, model_wts, opt_steps,
                   sched_steps, running_loss, running_corrects, epoch_loss,
                   epoch_acc, val_acc, val_log, best_loss, best_model_wts,
                   ckpts, final_model>>

\* lines 202-209: the epoch's validation metrics, recorded by the writer.
EndValPhase ==
    /\ tpc = "val"
    /\ batch_idx = NumBatches(val_n, bsz)
    /\ val_loss' = FDiv(val_loss, MetricDivisor(dataset_len, val_n))
    /\ val_acc' = FDiv(F(val_corrects), MetricDivisor(dataset_len, val_n))
    /\ val_log' = Append(val_log, FDiv(val_loss, MetricDivisor(dataset_len, val_n)))
    /\ tpc' = "decide"
    /\ UNCHANGED <<svars, cfgvars, total_steps, epoch, batch_idx, model_wts,
                   opt_steps, sched_steps, running_loss,
                   running_corrects, epoch_loss, epoch_acc, val_corrects,
                   best_loss, best_model_wts, ckpts, final_model>>

\* lines 211-218: a new best validation loss is recorded and saved.
CheckpointBest ==
    /\ tpc = "decide"
    /\ Improved(val_loss, best_loss)
    /\ best_loss' = val_loss
    /\ best_model_wts' = Snapshot(model_wts)
    /\ ckpts' = Append(ckpts, [epoch |-> epoch, loss |-> val_loss, wts |-> model_wts])
    /\ epoch' = epoch + 1
    /\ tpc' = "epoch"
    /\ UNCHANGED <<svars, cfgvars, total_steps, batch_idx, model_wts, opt_steps,
                   sched_steps, running_loss, running_corrects,
                   epoch_loss, epoch_acc, val_loss, val_corrects, val_acc,
                   val_log, final_model>>

\* line 211, condition false: nothing is written.
NoCheckpoint ==
    /\ tpc = "decide"
    /\ ~Improved(val_loss, best_loss)
    /\ epoch' = epoch + 1
    /\ tpc' = "epoch"
    /\ UNCHANGED <<svars, cfgvars, total_steps, batch_idx, model_wts, opt_steps,
                   sched_steps, running_loss, running_corrects,
                   epoch_loss, epoch_acc, val_loss, val_corrects, val_acc,
                   val_log, best_loss, best_model_wts, ckpts, final_model>>

\* lines 220-221: the best weights are loaded, train_model returns.
RestoreBest ==
    /\ tpc = "epoch"
    /\ epoch = n_epochs
    /\ model_wts' = LoadStateDict(model_wts, best_model_wts)
    /\ tpc' = "trained"
    /\ UNCHANGED <<svars, cfgvars, total_steps, epoch, batch_idx, opt_steps,
                   sched_steps, running_loss, running_corrects,
                   epoch_loss, epoch_acc, val_loss, val_corrects, val_acc,
                   val_log, best_loss, best_model_wts, ckpts, final_model>>

\* lines 243-248: main saves Final_model.pth.
SaveFinal ==
    /\ tpc = "trained"
    /\ final_model' = Append(final_model, model_wts)
    /\ tpc' = "done"
    /\ UNCHANGED <<svars, cfgvars, total_steps, epoch, batch_idx, model_wts,
                   opt_steps, sched_steps, running_loss,
                   running_corrects, epoch_loss, epoch_acc, val_loss,
                   val_corrects, val_acc, val_log, best_loss, best_model_wts,
                   ckpts>>

TrainNext ==
    \/ MainSetup \/ MainSetupFails \/ EpochStart \/ TrainForward
    \/ OptimizerStep \/ SchedStepAndAccumulate \/ EndTrainPhase \/ ValBatch
    \/ EndValPhase \/ CheckpointBest \/ NoCheckpoint \/ RestoreBest \/ SaveFinal

TrainSpec == TrainInit /\ [][TrainNext]_vars

\* ======================================================== get_data_loaders
\* raw catalog count of class c
ClassCount(c) == Cardinality(ClassIndices(samples, c))

\* positions of the pool that hold an entry of class c
PoolPositions(c) == {p \in 1..Len(indices) : samples[indices[p] + 1] = c}

NoRepeats(s) == \A i, j \in 1..Len(s) : i # j => s[i] # s[j]

\* C1 (as claimed): whenever get_data_loaders returns, train_indices and
\* val_indices share no catalog index and together hold exactly the indices of
\* the balanced pool, also when a class was sampled with replacement.
C1_TrainValDisjoint ==
    pc = "done" =>
        /\ Range(train_indices) \cap Range(val_indices) = {}
        /\ Range(train_indices) \cup Range(val_indices) = Range(indices)

\* C2: once class c has been sampled the pool holds exactly num_img entries
\* of class c, every pool entry is a catalog index, the entries of a class
\* with at least num_img catalog entries are pairwise distinct, and those of
\* a smaller class repeat at least once when num_img exceeds its size; the
\* pool has num_img entries per sampled class.
C2_BalancedPool ==
    pc \in {"sample", "done"} =>
        /\ Len(indices) = class_idx * num_img
        /\ \A p \in 1..Len(indices) : indices[p] \in 0..(Len(samples) - 1)
        /\ \A c \in 0..(class_idx - 1) :
              /\ ClassCount(c) >= 1
              /\ Cardinality(PoolPositions(c)) = num_img
              /\ ClassCount(c) >= num_img =>
                    \A p, q \in PoolPositions(c) : p # q => indices[p] # indices[q]
              /\ ClassCount(c) < num_img =>
                    \E p, q \in PoolPositions(c) : p # q /\ indices[p] = indices[q]
        /\ pc = "sample" =>
              \A c \in 0..(class_idx - 1) :
                  PoolPositions(c) = (c * num_img + 1)..((c + 1) * num_img)

\* a two-class run as in the spec's scenario: one class smaller than the
\* quota (sampled with replacement), one at least as large (without).
C2_Witness ==
    /\ pc = "done"
    /\ classes = 2
    /\ num_img = 2
    /\ ClassCount(0) < num_img
    /\ ClassCount(1) >= num_img
    /\ Len(indices) = 4

\* C3: the shuffle-and-split step cuts the shuffled pool at
\* floor(0.8 * len(pool)): train_indices is that prefix, val_indices the rest,
\* the two lengths add up to classes * num_img, and the two parts together
\* hold the pool as it was before the shuffle, entry for entry (as a
\* multiset); a pool of 10 is cut at 8.
C3_SplitAtFloor ==
    [][(pc = "sample" /\ pc' = "done") =>
          LET n == Len(indices)
              t == Len(train_indices')
          IN  /\ Len(indices') = n
              /\ 5 * t <= 4 * n
              /\ 4 * n < 5 * (t + 1)
              /\ train_indices' = SubSeq(indices', 1, t)
              /\ val_indices' = SubSeq(indices', t + 1, n)
              /\ t + Len(val_indices') = classes * num_img
              /\ BagOfSeq(train_indices' \o val_indices') = BagOfSeq(indices)
              /\ SplitPoint(10) = 8]_vars

\* a pool of 6 cut into 4 and 2: 0.8 * 6 = 4.8 is truncated.
C3_Witness ==
    /\ pc = "done"
    /\ Len(indices) = 6
    /\ Len(train_indices) = 4
    /\ Len(val_indices) = 2

\* C8 (as claimed): building the catalog fails when the root has no class
\* directory or a class directory has no image file, so once the dataset
\* object exists there is at least one class and no class is empty.
C8_CatalogRejectsEmpty ==
    pc # "start" =>
        /\ classes >= 1
        /\ \A c \in 0..(classes - 1) : ClassCount(c) >= 1

\* C10: a catalog index is in both train_indices and val_indices only if its
\* class has fewer than num_img catalog entries; when every class has at
\* least num_img entries the pool has no repeated index and the two subsets
\* are disjoint.
C10_OverlapOnlyOversampled ==
    pc = "done" =>
        /\ \A i \in Range(train_indices) \cap Range(val_indices) :
              ClassCount(samples[i + 1]) < num_img
        /\ (\A c \in 0..(classes - 1) : ClassCount(c) >= num_img) =>
              /\ NoRepeats(indices)
              /\ Range(train_indices) \cap Range(val_indices) = {}

\* a run where an oversampled class's entry lands in both subsets while the
\* other class, large enough, is sampled without replacement.
C10_Witness ==
    /\ pc = "done"
    /\ classes = 2
    /\ \E c \in 0..1 : ClassCount(c) < num_img /\ ClassCount(1 - c) >= num_img
    /\ Range(train_indices) \cap Range(val_indices) # {}

\* ============================================================= train_model
\* len(train_loader)
BatchesPerEpoch == NumBatches(train_n, bsz)

\* epochs whose checkpoint decision has been taken: 0 .. epoch - 1
Decided == 0..(epoch - 1)

\* the lowest of the first e validation losses the writer recorded
\* (+infinity for e = 0)
RECURSIVE RunMin(_, _)
RunMin(log, e) ==
    IF e = 0 THEN FInf
    ELSE LET m == RunMin(log, e - 1)
         IN  IF FLess(log[e], m) THEN log[e] ELSE m

\* the earliest of the first e epochs whose validation loss is that minimum
EarliestMin(log, e) ==
    CHOOSE j \in 0..(e - 1) :
        /\ FEq(log[j + 1], RunMin(log, e))
        /\ \A i \in 0..(j - 1) : ~FEq(log[i + 1], RunMin(log, e))

\* the parameters the model has at the end of epoch j's training phase
WtsAfterEpoch(j) == (j + 1) * BatchesPerEpoch

Saved(e) == \E i \in 1..Len(ckpts) : ckpts[i].epoch = e

InTrainModel == tpc \notin {"idle", "main", "error"}

\* C4: a best checkpoint is written for epoch e exactly when epoch e's
\* validation loss is strictly below every earlier epoch's (and below
\* +infinity); each file holds that epoch's loss, no epoch writes twice, and
\* the losses of the files are strictly decreasing in save order.
C4_CheckpointIffStrictlyLower ==
    InTrainModel =>
        /\ \A e \in Decided : Saved(e) <=> FLess(val_log[e + 1], RunMin(val_log, e))
        /\ \A i \in 1..Len(ckpts) :
              /\ ckpts[i].epoch \in Decided
              /\ ckpts[i].loss = val_log[ckpts[i].epoch + 1]
        /\ \A i, j \in 1..Len(ckpts) :
              i < j => /\ FLess(ckpts[j].loss, ckpts[i].loss)
                       /\ ckpts[i].epoch < ckpts[j].epoch

\* two epochs, the second with the higher validation loss: one file only.
C4_Witness ==
    /\ tpc = "done"
    /\ n_epochs = 2
    /\ FLess(val_log[1], val_log[2])
    /\ Len(ckpts) = 1
    /\ ckpts[1].epoch = 0

\* C5 (as claimed): when the run completes, exactly one final artifact has
\* been written and it holds the parameters of the end of the epoch with the
\* lowest validation loss, which are the contents of the last best
\* checkpoint written.
C5_FinalIsLastCheckpoint ==
    tpc = "done" =>
        /\ Len(final_model) = 1
        /\ Len(ckpts) >= 1
        /\ final_model[1] = ckpts[Len(ckpts)].wts
        /\ final_model[1] = WtsAfterEpoch(EarliestMin(val_log, n_epochs))

\* C5 (amended): when the run completes, exactly one final artifact has been
\* written and it holds the best-ever state train_model restored: the
\* contents of the last best checkpoint written, which are the parameters of
\* the end of the earliest epoch with the lowest validation loss, and, when
\* no epoch's validation loss was below +infinity and no checkpoint exists,
\* the parameters the model had before the first epoch.  After the restore
\* and before the save the model already holds these parameters.
C5_FinalIsBestState ==
    /\ tpc \in {"trained", "done"} =>
          /\ model_wts = best_model_wts
          /\ IF Len(ckpts) >= 1
             THEN /\ model_wts = ckpts[Len(ckpts)].wts
                  /\ model_wts = WtsAfterEpoch(EarliestMin(val_log, n_epochs))
                  /\ FLess(RunMin(val_log, n_epochs), FInf)
             ELSE /\ model_wts = 0
                  /\ ~FLess(RunMin(val_log, n_epochs), FInf)
    /\ tpc = "trained" => final_model = <<>>
    /\ tpc = "done" => final_model = <<model_wts>>
    /\ tpc \notin {"trained", "done"} => final_model = <<>>

\* the last epoch did not improve: the final artifact is the first epoch's
\* state, not the state after the last optimizer step.
C5_Witness ==
    /\ tpc = "done"
    /\ n_epochs = 2
    /\ Len(ckpts) = 1
    /\ ckpts[1].epoch = 0
    /\ final_model = <<WtsAfterEpoch(0)>>
    /\ final_model[1] # opt_steps

\* C6: the schedule is advanced once per processed training batch, after
\* that batch's optimizer step and before the next forward pass, not during
\* validation, never beyond the total the schedule was built with, and
\* n_epochs * len(train_loader) = total_steps times over a completed run.
C6_SchedulePerBatch ==
    InTrainModel =>
        /\ total_steps = n_epochs * BatchesPerEpoch
        /\ sched_steps <= total_steps
        /\ tpc \in {"forward", "optstep"} =>
              /\ sched_steps = epoch * BatchesPerEpoch + batch_idx
              /\ opt_steps = sched_steps
        /\ tpc = "schedstep" =>
              /\ sched_steps = epoch * BatchesPerEpoch + batch_idx
              /\ opt_steps = sched_steps + 1
        /\ tpc \in {"val", "decide"} =>
              /\ sched_steps = (epoch + 1) * BatchesPerEpoch
              /\ opt_steps = sched_steps
        /\ tpc = "epoch" =>
              /\ sched_steps = epoch * BatchesPerEpoch
              /\ opt_steps = sched_steps
        /\ tpc \in {"trained", "done"} =>
              /\ sched_steps = n_epochs * BatchesPerEpoch
              /\ sched_steps = total_steps
              /\ opt_steps = sched_steps

\* a completed run of two epochs of two batches: four schedule steps.
C6_Witness ==
    /\ tpc = "done"
    /\ n_epochs = 2
    /\ BatchesPerEpoch = 2
    /\ sched_steps = 4
    /\ total_steps = 4

\* C7 (as claimed): the epoch's training metrics are the running sums
\* divided by the number of samples of the training subset, the validation
\* metrics the sums divided by the number of samples of the validation
\* subset; an epoch with every prediction correct has accuracy 1.
C7_MetricsOverSubset ==
    /\ tpc \in {"val", "decide"} =>
          /\ FEq(epoch_loss, FDiv(running_loss, train_n))
          /\ FEq(epoch_acc, FDiv(F(running_corrects), train_n))
          /\ running_corrects = train_n => FEq(epoch_acc, F(1))
    /\ tpc = "decide" =>
          /\ FEq(val_acc, FDiv(F(val_corrects), val_n))
          /\ val_corrects = val_n => FEq(val_acc, F(1))

\* C9 (as claimed): after every checkpoint decision best_loss is the lowest
\* validation loss so far (+infinity before any) and best_model_wts holds
\* the parameters of the end of the earliest epoch that achieved it.
C9_BestIsEarliestMinEpoch ==
    InTrainModel =>
        /\ best_loss = RunMin(val_log, epoch)
        /\ epoch >= 1 => best_model_wts = WtsAfterEpoch(EarliestMin(val_log, epoch))

\* C9 (amended): at every point of train_model best_loss is the lowest
\* validation loss of the decided epochs (+infinity before any), and
\* best_model_wts holds the parameters of the end of the earliest epoch that
\* achieved it when that loss is below +infinity, and otherwise the snapshot
\* of the initial parameters; the training steps of later epochs leave it as
\* it is.
C9_BestTracksMinimum ==
    InTrainModel =>
        /\ best_loss = RunMin(val_log, epoch)
        /\ IF FLess(RunMin(val_log, epoch), FInf)
           THEN best_model_wts = WtsAfterEpoch(EarliestMin(val_log, epoch))
           ELSE best_model_wts = 0

\* the second epoch ties the first: the snapshot is still the first epoch's,
\* while the model has been trained further.
C9_Witness ==
    /\ tpc = "epoch"
    /\ epoch = 2
    /\ FEq(val_log[1], val_log[2])
    /\ FLess(val_log[1], FInf)
    /\ best_model_wts = WtsAfterEpoch(0)
    /\ model_wts = WtsAfterEpoch(1)

====
